---- MODULE Spec2Model ----
(***************************************************************************)
(* Model of the OpenAI chat-completion streaming wrapper                   *)
(* (opentelemetry-instrumentation-openai-v2, patch.py): StreamWrapper,     *)
(* ChoiceBuffer and ToolCallBuffer.                                        *)
(*                                                                         *)
(* One StreamWrapper is driven by one consumer.  Every public method of    *)
(* the wrapper (__next__, close, __enter__, __exit__) is one action that   *)
(* models the whole method, the calls it makes on the span and on the      *)
(* event logger included.  The telemetry collaborator is recorded as the   *)
(* sequence of calls made on it (variable telemetry), in call order.       *)
(*                                                                         *)
(* Optional values (Python's None) are sequences of length at most one:    *)
(* None is << >> and a present value x is << x >>.                         *)
(***************************************************************************)
EXTENDS Integers, Sequences, FiniteSets, TLC

(***************************************************************************)
(* Bounds of the model.                                                    *)
(***************************************************************************)
\* chunks the underlying stream may deliver before it must stop or fail
MaxChunks == 2
\* calls the consumer makes on the wrapper
MaxOps == 3
\* telemetry calls that may raise in one run
MaxTelemetryFailures == 1

(***************************************************************************)
(* Optional values.                                                        *)
(***************************************************************************)
None == << >>

Some(x) == << x >>

\* Python truthiness of an optional string: neither None nor "".
Truthy(o) == o # None /\ o[1] # ""

(***************************************************************************)
(* The chunks of the transport (openai ChatCompletionChunk), as the fold   *)
(* reads them: id, model, service_tier, usage, choices[]; each choice has  *)
(* index, finish_reason and delta; a delta has content and tool_calls[];   *)
(* a tool-call delta has index, id and function{name, arguments}.          *)
(***************************************************************************)
Fn(name, arguments) == Some([name |-> name, arguments |-> arguments])

ToolCallDelta(index, id, function) ==
    [index |-> index, id |-> id, function |-> function]

Delta(content, tool_calls) ==
    Some([content |-> content, tool_calls |-> tool_calls])

Choice(index, finish_reason, delta) ==
    [index |-> index, finish_reason |-> finish_reason, delta |-> delta]

Chunk(id, model, service_tier, usage, choices) ==
    [id |-> id, model |-> model, service_tier |-> service_tier,
     usage |-> usage, choices |-> choices]

Usage(prompt_tokens, completion_tokens) ==
    Some([prompt_tokens |-> prompt_tokens,
          completion_tokens |-> completion_tokens])

\* The chunk shapes the underlying stream may deliver.
ChunkCatalog ==
    << \* 1: first content delta of choice 0, carries id and model
       Chunk(Some("chatcmpl-1"), Some("gpt-4o-mini"), None, None,
             Some(<< Choice(0, None, Delta(Some("Hel"), None)) >>)),
       \* 2: last content delta of choice 0 with finish reason and usage
       Chunk(Some("chatcmpl-2"), Some("gpt-4o"), Some("default"),
             Usage(3, 5),
             Some(<< Choice(0, Some("stop"), Delta(Some("lo"), None)) >>)),
       \* 3: tool-call delta at tool-call index 1 while slot 0 has none
       Chunk(None, None, None, None,
             Some(<< Choice(0, None, Delta(None, Some(<<
                 ToolCallDelta(1, Some("call_b"),
                               Fn(Some("get_time"), Some("{}"))) >>))) >>)),
       \* 4: tool-call delta at index 0 whose function.arguments is absent
       Chunk(None, None, None, None,
             Some(<< Choice(0, Some("tool_calls"), Delta(None, Some(<<
                 ToolCallDelta(0, Some("call_a"),
                               Fn(Some("get_weather"), None)) >>))) >>)),
       \* 5: tool-call delta at index 0 whose function is absent
       Chunk(None, None, None, None,
             Some(<< Choice(0, None, Delta(None, Some(<<
                 ToolCallDelta(0, None, None) >>))) >>)),
       \* 6: choice 1 before choice 0, empty-string content, no delta for
       \*    a second entry
       Chunk(Some(""), None, None, None,
             Some(<< Choice(1, None, Delta(Some(""), None)),
                     Choice(0, Some("length"), None) >>)),
       \* 7: usage-only chunk without choices
       Chunk(None, None, None, Usage(7, 0), None),
       \* 8: continuation of the tool call at index 0: an arguments
       \*    fragment, no id and no name
       Chunk(None, None, None, None,
             Some(<< Choice(0, None, Delta(None, Some(<<
                 ToolCallDelta(0, None, Fn(None, Some("{\"tz\":1}"))) >>))) >>)),
       \* 9: content deltas of two choices, choice 1 before choice 0
       Chunk(None, None, None, None,
             Some(<< Choice(1, Some("stop"), Delta(Some("B"), None)),
                     Choice(0, None, Delta(Some("A"), None)) >>)),
       \* 10: tool-call delta at tool-call index 1 whose function is absent
       Chunk(None, None, None, None,
             Some(<< Choice(0, None, Delta(None, Some(<<
                 ToolCallDelta(1, None, None) >>))) >>)) >>

ChunkIds == 1..Len(ChunkCatalog)

(***************************************************************************)
(* ToolCallBuffer and ChoiceBuffer.                                        *)
(***************************************************************************)
\* ToolCallBuffer.__init__
ToolCallBuffer(index, tool_call_id, function_name) ==
    [index |-> index, function_name |-> function_name,
     tool_call_id |-> tool_call_id, arguments |-> << >>]

\* ToolCallBuffer.append_arguments
append_arguments(buffer, arguments) ==
    [buffer EXCEPT !.arguments = Append(@, arguments)]

\* ChoiceBuffer.__init__
ChoiceBuffer(index) ==
    [index |-> index, finish_reason |-> None, text_content |-> << >>,
     tool_calls_buffers |-> << >>]

\* A faulty append_text_content, which puts the newest fragment first
append_text_content_prepends(choice, content) ==
    [choice EXCEPT !.text_content = << content >> \o @]

\* ChoiceBuffer.append_text_content
append_text_content(choice, content) ==
    [choice EXCEPT !.text_content = Append(@, content)]

\* range(len(buffers), idx + 1): buffers.append(None)
PadWithNone(buffers, idx) ==
    buffers \o [i \in 1..(idx + 1 - Len(buffers)) |-> None]

\* str() of the AttributeError python raises for None.<attribute>
NoneHasNoAttribute(attribute) ==
    "'NoneType' object has no attribute '" \o attribute \o "'"

\* ChoiceBuffer.append_tool_call.  The result is the buffer after the call,
\* the exception the call raised ("" when it returned) and its message:
\* reading tool_call.function.name (for an empty slot) or .arguments of an
\* absent function raises AttributeError, after the list has been padded.
append_tool_call(choice, tool_call) ==
    LET idx == tool_call.index
        padded == PadWithNone(choice.tool_calls_buffers, idx)
        c1 == [choice EXCEPT !.tool_calls_buffers = padded]
    IN  IF tool_call.function = None
        THEN [choice |-> c1, exc |-> "AttributeError",
              msg |-> NoneHasNoAttribute(IF padded[idx + 1] = None
                                         THEN "name" ELSE "arguments")]
        ELSE LET slot == IF padded[idx + 1] = None
                         THEN ToolCallBuffer(idx, tool_call.id,
                                             tool_call.function[1].name)
                         ELSE padded[idx + 1][1]
                 filled == append_arguments(
                               slot, tool_call.function[1].arguments)
             IN  [choice |-> [c1 EXCEPT
                                !.tool_calls_buffers[idx + 1] = Some(filled)],
                  exc |-> "", msg |-> ""]

(***************************************************************************)
(* The fold step of StreamWrapper.                                         *)
(* The wrapper is a record w of its fields: choice_buffers, response_id,   *)
(* response_model, service_tier, prompt_tokens, completion_tokens,         *)
(* span_started (the attribute _span_started) and capture_content.         *)
(***************************************************************************)
\* StreamWrapper.set_response_model
set_response_model(w, chunk) ==
    IF Truthy(w.response_model) THEN w
    ELSE IF Truthy(chunk.model) THEN [w EXCEPT !.response_model = chunk.model]
    ELSE w

\* A faulty set_response_id, which lets a later chunk overwrite the id
set_response_id_overwrites(w, chunk) ==
    IF Truthy(chunk.id) THEN [w EXCEPT !.response_id = chunk.id] ELSE w

\* StreamWrapper.set_response_id
set_response_id(w, chunk) ==
    IF Truthy(w.response_id) THEN w
    ELSE IF Truthy(chunk.id) THEN [w EXCEPT !.response_id = chunk.id]
    ELSE w

\* StreamWrapper.set_response_service_tier
set_response_service_tier(w, chunk) ==
    IF Truthy(w.service_tier) THEN w
    ELSE IF Truthy(chunk.service_tier)
         THEN [w EXCEPT !.service_tier = chunk.service_tier]
    ELSE w

\* A faulty set_usage, which keeps the first counts it has seen
set_usage_keeps_first(w, chunk) ==
    IF chunk.usage = None \/ w.prompt_tokens # 0 \/ w.completion_tokens # 0
    THEN w
    ELSE [w EXCEPT !.completion_tokens = chunk.usage[1].completion_tokens,
                   !.prompt_tokens = chunk.usage[1].prompt_tokens]

\* StreamWrapper.set_usage
set_usage(w, chunk) ==
    IF chunk.usage = None THEN w
    ELSE [w EXCEPT !.completion_tokens = chunk.usage[1].completion_tokens,
                   !.prompt_tokens = chunk.usage[1].prompt_tokens]

\* A faulty PadChoiceBuffers, which gives every buffer it creates the index
\* of the choice that arrived
PadChoiceBuffers_arrived_index(buffers, index) ==
    buffers \o [i \in 1..(index + 1 - Len(buffers)) |-> ChoiceBuffer(index)]

\* for idx in range(len(choice_buffers), index + 1): append(ChoiceBuffer(idx))
PadChoiceBuffers(buffers, index) ==
    buffers \o [i \in 1..(index + 1 - Len(buffers)) |->
                   ChoiceBuffer(Len(buffers) + i - 1)]

\* for tool_call in choice.delta.tool_calls: append_tool_call(tool_call),
\* from the j-th tool call on; stops at the first exception.
RECURSIVE FoldToolCalls(_, _, _)
FoldToolCalls(choice, tool_calls, j) ==
    IF j > Len(tool_calls) THEN [choice |-> choice, exc |-> "", msg |-> ""]
    ELSE LET r == append_tool_call(choice, tool_calls[j])
         IN  IF r.exc # "" THEN r
             ELSE FoldToolCalls(r.choice, tool_calls, j + 1)

\* A faulty FoldChoice, which tests the truthiness of delta.content and so
\* treats "" like None
FoldChoice_content_truthy(buffers, choice) ==
    IF choice.delta = None THEN [buffers |-> buffers, exc |-> "", msg |-> ""]
    ELSE LET delta == choice.delta[1]
             k == choice.index + 1
             b1 == PadChoiceBuffers(buffers, choice.index)
             b2 == IF Truthy(choice.finish_reason)
                   THEN [b1 EXCEPT ![k].finish_reason = choice.finish_reason]
                   ELSE b1
             b3 == IF Truthy(delta.content)
                   THEN [b2 EXCEPT
                           ![k] = append_text_content(@, delta.content[1])]
                   ELSE b2
         IN  IF delta.tool_calls = None
             THEN [buffers |-> b3, exc |-> "", msg |-> ""]
             ELSE LET r == FoldToolCalls(b3[k], delta.tool_calls[1], 1)
                  IN  [buffers |-> [b3 EXCEPT ![k] = r.choice],
                       exc |-> r.exc, msg |-> r.msg]

\* The body of the loop of build_streaming_response for one entry of
\* chunk.choices.
FoldChoice(buffers, choice) ==
    IF choice.delta = None THEN [buffers |-> buffers, exc |-> "", msg |-> ""]
    ELSE LET delta == choice.delta[1]
             k == choice.index + 1
             b1 == PadChoiceBuffers(buffers, choice.index)
             b2 == IF Truthy(choice.finish_reason)
                   THEN [b1 EXCEPT ![k].finish_reason = choice.finish_reason]
                   ELSE b1
             b3 == IF delta.content # None
                   THEN [b2 EXCEPT
                           ![k] = append_text_content(@, delta.content[1])]
                   ELSE b2
         IN  IF delta.tool_calls = None
             THEN [buffers |-> b3, exc |-> "", msg |-> ""]
             ELSE LET r == FoldToolCalls(b3[k], delta.tool_calls[1], 1)
                  IN  [buffers |-> [b3 EXCEPT ![k] = r.choice],
                       exc |-> r.exc, msg |-> r.msg]

RECURSIVE FoldChoices(_, _, _)
FoldChoices(buffers, choices, i) ==
    IF i > Len(choices) THEN [buffers |-> buffers, exc |-> "", msg |-> ""]
    ELSE LET r == FoldChoice(buffers, choices[i])
         IN  IF r.exc # "" THEN r
             ELSE FoldChoices(r.buffers, choices, i + 1)

\* StreamWrapper.build_streaming_response: the wrapper after the call and
\* the exception raised ("" when it returned).
build_streaming_response(w, chunk) ==
    IF chunk.choices = None THEN [w |-> w, exc |-> "", msg |-> ""]
    ELSE LET r == FoldChoices(w.choice_buffers, chunk.choices[1], 1)
         IN  [w |-> [w EXCEPT !.choice_buffers = r.buffers],
              exc |-> r.exc, msg |-> r.msg]

\* StreamWrapper.process_chunk: set_usage is skipped when the fold raised.
process_chunk(w, chunk) ==
    LET w3 == set_response_service_tier(
                  set_response_model(set_response_id(w, chunk), chunk), chunk)
        r == build_streaming_response(w3, chunk)
    IN  IF r.exc # "" THEN r
        ELSE [w |-> set_usage(r.w, chunk), exc |-> "", msg |-> ""]

\* StreamWrapper.setup
setup(w) == IF ~w.span_started THEN [w EXCEPT !.span_started = TRUE] ELSE w

\* StreamWrapper.__init__ with the class defaults: the wrapper handed to the
\* caller, its guard armed by setup().
StreamWrapper(capture_content) ==
    setup([choice_buffers |-> << >>, response_id |-> None,
           response_model |-> None, service_tier |-> None,
           prompt_tokens |-> 0, completion_tokens |-> 0,
           span_started |-> FALSE, capture_content |-> capture_content])

RECURSIVE FoldChunks(_, _, _)
\* process_chunk over the chunks ids[i..], stopping at the first exception.
FoldChunks(w, ids, i) ==
    IF i > Len(ids) THEN [w |-> w, exc |-> "", msg |-> ""]
    ELSE LET r == process_chunk(w, ChunkCatalog[ids[i]])
         IN  IF r.exc # "" THEN r ELSE FoldChunks(r.w, ids, i + 1)

(***************************************************************************)
(* The telemetry collaborator.  Each call made on the span or on the event *)
(* logger is one entry of a call sequence: op is set_status,               *)
(* set_attribute, emit or end, with its arguments key and val; in the      *)
(* recorded sequence ok is FALSE when the call raised.  A method of the    *)
(* wrapper makes its telemetry calls in program order, and its f-th        *)
(* telemetry call raises (f = 0: none does).                               *)
(***************************************************************************)
GEN_AI_RESPONSE_MODEL == "gen_ai.response.model"

GEN_AI_RESPONSE_ID == "gen_ai.response.id"

GEN_AI_USAGE_INPUT_TOKENS == "gen_ai.usage.input_tokens"

GEN_AI_USAGE_OUTPUT_TOKENS == "gen_ai.usage.output_tokens"

GEN_AI_OPENAI_RESPONSE_SERVICE_TIER == "gen_ai.openai.response.service_tier"

GEN_AI_RESPONSE_FINISH_REASONS == "gen_ai.response.finish_reasons"

ERROR_TYPE == "error.type"

Call(op, key, val) == [op |-> op, key |-> key, val |-> val]

\* span.set_status(Status(StatusCode.ERROR, description))
set_status(description) == Call("set_status", "ERROR", description)

\* span.set_attribute(key, value)
set_attribute(key, val) == Call("set_attribute", key, val)

\* utils.set_span_attribute(span, name, value)
set_span_attribute(name, val) == set_attribute(name, val)

\* event_logger.emit(Event(name="gen_ai.choice", body=body, ...))
emit(body) == Call("emit", "gen_ai.choice", body)

\* span.end()
end == Call("end", "", "")

\* A block of code that makes the telemetry calls `calls` in order and then
\* raises `error` itself ("" when it does not), run as the calls number
\* n0+1, n0+2, ... of a method whose f-th call raises: the calls made, each
\* with its ok flag, and the exception that leaves the block.
Run(calls, error, n0, f) ==
    LET fails == f > n0 /\ f <= n0 + Len(calls)
        m == IF fails THEN f - n0 ELSE Len(calls)
    IN  [made |-> [i \in 1..m |->
                     [op |-> calls[i].op, key |-> calls[i].key,
                      val |-> calls[i].val, ok |-> ~(fails /\ i = m)]],
         exc |-> IF fails THEN "TelemetryError" ELSE error]

(***************************************************************************)
(* StreamWrapper.cleanup.                                                  *)
(***************************************************************************)
\* StreamWrapper.finish_reasons: the class attribute, never appended to
finish_reasons == << >>

RECURSIVE Join(_, _)
\* "".join(parts[i..]) for parts that are all strings
Join(parts, i) ==
    IF i > Len(parts) THEN "" ELSE parts[i] \o Join(parts, i + 1)

\* "".join(tool_call.arguments) raises TypeError if an element is None
HasNone(arguments) == \E i \in 1..Len(arguments) : arguments[i] = None

Values(arguments) == [i \in 1..Len(arguments) |-> arguments[i][1]]

\* What building the dict of one slot of choice.tool_calls_buffers raises:
\* reading function_name of an unpopulated slot (None) raises
\* AttributeError, joining arguments that hold None raises TypeError.
ToolCallError(slot, capture) ==
    IF slot = None THEN "AttributeError"
    ELSE IF capture /\ HasNone(slot[1].arguments) THEN "TypeError"
    ELSE ""

\* tool_call_dict for a populated slot
ToolCallDict(slot, capture) ==
    [id |-> slot[1].tool_call_id, type |-> "function",
     function |-> [name |-> slot[1].function_name,
                   arguments |-> IF capture
                                 THEN Some(Join(Values(slot[1].arguments), 1))
                                 ELSE None]]

\* The exception raised while the message of a choice is built: that of the
\* first slot that raises, "" if none does.
MessageError(choice, capture) ==
    LET buffers == choice.tool_calls_buffers
        bad == {j \in 1..Len(buffers) : ToolCallError(buffers[j], capture) # ""}
    IN  IF bad = {} THEN ""
        ELSE ToolCallError(buffers[CHOOSE j \in bad : \A x \in bad : j <= x],
                           capture)

\* A faulty ChoiceBody, which attaches the text without looking at
\* capture_content
ChoiceBody_content_uncaptured(choice, idx, capture) ==
    [index |-> idx,
     finish_reason |-> IF Truthy(choice.finish_reason)
                       THEN choice.finish_reason[1] ELSE "error",
     message |->
        [role |-> "assistant",
         content |-> IF choice.text_content # << >>
                     THEN Some(Join(choice.text_content, 1)) ELSE None,
         tool_calls |->
             IF choice.tool_calls_buffers # << >>
             THEN Some([j \in 1..Len(choice.tool_calls_buffers) |->
                          ToolCallDict(choice.tool_calls_buffers[j], capture)])
             ELSE None]]

\* The body of the gen_ai.choice event of choice_buffers[idx + 1], for a
\* choice whose message is built without an exception.
ChoiceBody(choice, idx, capture) ==
    [index |-> idx,
     finish_reason |-> IF Truthy(choice.finish_reason)
                       THEN choice.finish_reason[1] ELSE "error",
     message |->
        [role |-> "assistant",
         content |-> IF capture /\ choice.text_content # << >>
                     THEN Some(Join(choice.text_content, 1)) ELSE None,
         tool_calls |->
             IF choice.tool_calls_buffers # << >>
             THEN Some([j \in 1..Len(choice.tool_calls_buffers) |->
                          ToolCallDict(choice.tool_calls_buffers[j], capture)])
             ELSE None]]

\* The choices whose message cannot be built
BadChoices(w) ==
    {i \in 1..Len(w.choice_buffers) :
        MessageError(w.choice_buffers[i], w.capture_content) # ""}

FirstBadChoice(w) == CHOOSE i \in BadChoices(w) : \A x \in BadChoices(w) : i <= x

\* The set_span_attribute calls of cleanup, in order
CleanupAttributes(w) ==
    (IF Truthy(w.response_model)
     THEN << set_span_attribute(GEN_AI_RESPONSE_MODEL, w.response_model) >>
     ELSE << >>)
    \o (IF Truthy(w.response_id)
        THEN << set_span_attribute(GEN_AI_RESPONSE_ID, w.response_id) >>
        ELSE << >>)
    \o << set_span_attribute(GEN_AI_USAGE_INPUT_TOKENS, w.prompt_tokens),
          set_span_attribute(GEN_AI_USAGE_OUTPUT_TOKENS, w.completion_tokens),
          set_span_attribute(GEN_AI_OPENAI_RESPONSE_SERVICE_TIER,
                             w.service_tier),
          set_span_attribute(GEN_AI_RESPONSE_FINISH_REASONS, finish_reasons) >>

\* for idx, choice in enumerate(self.choice_buffers): ... emit(...): one
\* event per choice, up to the first choice whose message cannot be built
CleanupEvents(w) ==
    LET n == IF BadChoices(w) = {} THEN Len(w.choice_buffers)
             ELSE FirstBadChoice(w) - 1
    IN  [i \in 1..n |->
            emit(ChoiceBody(w.choice_buffers[i], i - 1, w.capture_content))]

\* The exception the code of cleanup raises itself
CleanupError(w) ==
    IF BadChoices(w) = {} THEN ""
    ELSE MessageError(w.choice_buffers[FirstBadChoice(w)], w.capture_content)

\* The telemetry calls of cleanup with the guard armed, in order; span.end()
\* is the last, and is not reached when a message cannot be built.
CleanupCalls(w) ==
    CleanupAttributes(w) \o CleanupEvents(w)
    \o (IF CleanupError(w) = "" THEN << end >> ELSE << >>)

\* StreamWrapper.cleanup, run after n0 telemetry calls of the method: the
\* wrapper after it, the calls made and the exception raised.  The guard is
\* cleared only when span.end() has returned.
cleanup(w, n0, f) ==
    IF ~w.span_started THEN [w |-> w, made |-> << >>, exc |-> ""]
    ELSE LET run == Run(CleanupCalls(w), CleanupError(w), n0, f)
         IN  [w |-> IF run.exc = "" THEN [w EXCEPT !.span_started = FALSE]
                    ELSE w,
              made |-> run.made, exc |-> run.exc]

(***************************************************************************)
(* The methods of StreamWrapper as functions of the wrapper w and the      *)
(* failing telemetry call f.  Each result holds the wrapper at exit, the   *)
(* telemetry calls made, whether cleanup() was called (cleaned) and what   *)
(* the caller observes: outcome is "return" or the type name of the        *)
(* exception that propagates.  Exceptions are identified by their type     *)
(* name.                                                                   *)
(***************************************************************************)
\* str(error) of the exceptions of the transport and of the consumer
str(error) ==
    CASE error = "JSONDecodeError" -> "Expecting value: line 1 column 1"
      [] error = "APIConnectionError" -> "Connection error."
      [] error = "ValueError" -> "consumer failed"
      [] OTHER -> ""

\* The two calls that record an exception on the span:
\* set_status(Status(StatusCode.ERROR, str(error))) and
\* set_attribute(ERROR_TYPE, type(error).__qualname__)
RecordError(error, description) ==
    << set_status(description), set_attribute(ERROR_TYPE, error) >>

\* StreamWrapper.__next__, the handler "except Exception as error", for an
\* error whose str() is description
ExceptException(w, f, error, description) ==
    LET h == Run(RecordError(error, description), "", 0, f)
        r == cleanup(w, Len(h.made), f)
    IN  IF h.exc # ""
        THEN [w |-> w, made |-> h.made, outcome |-> h.exc, cleaned |-> FALSE]
        ELSE [w |-> r.w, made |-> h.made \o r.made,
              outcome |-> IF r.exc # "" THEN r.exc ELSE error,
              cleaned |-> TRUE]

\* StreamWrapper.__next__, the handler "except StopIteration"
ExceptStopIteration(w, f) ==
    LET r == cleanup(w, 0, f)
    IN  [w |-> r.w, made |-> r.made,
         outcome |-> IF r.exc # "" THEN r.exc ELSE "StopIteration",
         cleaned |-> TRUE]

\* StreamWrapper.__next__ when next(self.stream) does src: yields the chunk
\* src.id, raises StopIteration or raises the exception src.error
do_next(w, f, src) ==
    IF src.kind = "chunk"
    THEN LET r == process_chunk(w, ChunkCatalog[src.id])
         IN  IF r.exc = ""
             THEN [w |-> r.w, made |-> << >>, outcome |-> "return",
                   cleaned |-> FALSE]
             ELSE ExceptException(r.w, f, r.exc, r.msg)
    ELSE IF src.kind = "StopIteration" THEN ExceptStopIteration(w, f)
    ELSE ExceptException(w, f, src.error, str(src.error))

\* StreamWrapper.close, after self.stream.close() has returned
do_close(w, f) ==
    LET r == cleanup(w, 0, f)
    IN  [w |-> r.w, made |-> r.made,
         outcome |-> IF r.exc # "" THEN r.exc ELSE "return",
         cleaned |-> TRUE]

\* StreamWrapper.__enter__
do_enter(w) == setup(w)

\* StreamWrapper.__exit__ with exc_type in flight ("" for None): cleanup
\* runs in the finally clause; an exception of the try block propagates
\* after it unless cleanup raised one itself.
do_exit(w, f, exc_type) ==
    LET h == IF exc_type # ""
             THEN Run(RecordError(exc_type, str(exc_type)), "", 0, f)
             ELSE [made |-> << >>, exc |-> ""]
        r == cleanup(w, Len(h.made), f)
    IN  [w |-> r.w, made |-> h.made \o r.made,
         outcome |-> IF r.exc # "" THEN r.exc
                     ELSE IF h.exc # "" THEN h.exc
                     ELSE "return",
         cleaned |-> TRUE]

(***************************************************************************)
(* The state.                                                              *)
(***************************************************************************)
VARIABLES
    self,        \* the StreamWrapper's fields
    stream,      \* the underlying stream: "open", "exhausted" or "closed"
    entered,     \* the consumer is inside a "with wrapper:" block
    telemetry,   \* the calls made on the span and the event logger
    produced,    \* ids of the chunks next(self.stream) has yielded
    returned,    \* ids of the chunks __next__ has returned
    last,        \* what the last call on the wrapper did, as the caller saw it
    ops,         \* calls made on the wrapper
    failures,    \* telemetry calls that raised
    request,     \* the chat.completions.create call traced_method wrapped
    threads,     \* the position of each thread that runs cleanup()
    connection,  \* the attributes of a mysql-connector connection
    invoked,     \* the calls made on the MySQLInstrumentor, in order
    context,     \* the tokens attached to the runtime context, not detached
    detected     \* the attributes of the Resource each detect() returned

vars == << self, stream, entered, telemetry, produced, returned, last, ops,
           failures, request, threads, connection, invoked, context,
           detected >>

\* The state of one StreamWrapper and of its consumer
wrapperVars == << self, stream, entered, telemetry, produced, returned, last,
                  ops, failures >>

\* The state outside the wrapper: the call that created it, the threads
\* that share it, and the MySQL connection and the runtime context of the
\* other two packages
otherVars == << request, threads, connection, invoked, context, detected >>

\* The exceptions the transport raises from next(), by type name
TransportErrors == {"APIConnectionError", "JSONDecodeError"}

\* The exceptions of the consumer's own code inside a with block
ConsumerErrors == {"ValueError"}

ChunkOutcomes ==
    {[kind |-> "chunk", id |-> i, error |-> ""] : i \in ChunkIds}

StopOutcome == [kind |-> "StopIteration", id |-> 0, error |-> ""]

ErrorOutcomes ==
    {[kind |-> "error", id |-> 0, error |-> e] : e \in TransportErrors}

\* What next(self.stream) may do.  An open stream yields a chunk, ends or
\* fails; a stream that has ended or failed is a finished generator; a
\* closed stream yields nothing more: it ends or fails.
StreamOutcomes ==
    CASE stream = "open" ->
             (IF Len(produced) < MaxChunks THEN ChunkOutcomes ELSE {})
             \cup {StopOutcome} \cup ErrorOutcomes
      [] stream = "exhausted" -> {StopOutcome}
      [] stream = "closed" -> {StopOutcome} \cup ErrorOutcomes

StreamAfter(src) ==
    IF stream = "closed" THEN "closed"
    ELSE IF src.kind = "chunk" THEN "open" ELSE "exhausted"

\* The largest number of choice buffers the catalog's chunks can create
MaxChoiceBuffers ==
    LET Indices == {0} \cup
            UNION {{ChunkCatalog[i].choices[1][j].index + 1 :
                       j \in 1..Len(ChunkCatalog[i].choices[1])} :
                   i \in {k \in ChunkIds : ChunkCatalog[k].choices # None}}
    IN  CHOOSE m \in Indices : \A x \in Indices : x <= m

\* Which telemetry call of a method raises: none (0), or one of the calls
\* a method can make (two in a handler, six attributes, one event per
\* choice, span.end()).
FailurePoints ==
    IF failures < MaxTelemetryFailures
    THEN 0..(2 + 6 + MaxChoiceBuffers + 1)
    ELSE {0}

\* f names a call the method made
Happens(f, r) == f = 0 \/ \E i \in 1..Len(r.made) : ~r.made[i].ok

\* What the caller of a method of the wrapper observed, recorded in last:
\* the method, its outcome ("return" or the exception's type name), the
\* value returned ("chunk", "self", "None" or "False"), what
\* next(self.stream) did (source), the exception in flight at __exit__
\* (exc_type), whether cleanup() was called (cleaned), the guard at entry
\* (armed) and the index in telemetry of the method's first call (first).
Observed(method, r, value, source, exc_type) ==
    [method |-> method, outcome |-> r.outcome,
     value |-> IF r.outcome = "return" THEN value ELSE "",
     source |-> source, exc_type |-> exc_type, cleaned |-> r.cleaned,
     armed |-> self.span_started, first |-> Len(telemetry) + 1]

Init ==
    /\ self \in {StreamWrapper(capture) : capture \in BOOLEAN}
    /\ stream = "open"
    /\ entered = FALSE
    /\ telemetry = << >>
    /\ produced = << >>
    /\ returned = << >>
    /\ last = [method |-> "__init__", outcome |-> "return", value |-> "self",
               source |-> "", exc_type |-> "", cleaned |-> FALSE,
               armed |-> FALSE, first |-> 1]
    /\ ops = 0
    /\ failures = 0
    /\ request = None
    /\ threads = << >>
    /\ connection = None
    /\ invoked = << >>
    /\ context = << >>
    /\ detected = << >>

__next__ ==
    /\ ops < MaxOps
    /\ \E src \in StreamOutcomes, f \in FailurePoints :
         \E r \in {do_next(self, f, src)} :
             /\ Happens(f, r)
             /\ self' = r.w
             /\ telemetry' = telemetry \o r.made
             /\ stream' = StreamAfter(src)
             /\ produced' = IF src.kind = "chunk"
                            THEN Append(produced, src.id) ELSE produced
             /\ returned' = IF r.outcome = "return"
                            THEN Append(returned, src.id) ELSE returned
             /\ last' = Observed("__next__", r, "chunk",
                                 IF src.kind = "error" THEN src.error
                                 ELSE src.kind, "")
             /\ failures' = failures + (IF f = 0 THEN 0 ELSE 1)
    /\ ops' = ops + 1
    /\ UNCHANGED entered
    /\ UNCHANGED otherVars

close ==
    /\ ops < MaxOps
    /\ \E f \in FailurePoints :
         \E r \in {do_close(self, f)} :
             /\ Happens(f, r)
             /\ self' = r.w
             /\ telemetry' = telemetry \o r.made
             /\ last' = Observed("close", r, "None", "", "")
             /\ failures' = failures + (IF f = 0 THEN 0 ELSE 1)
    /\ stream' = "closed"
    /\ ops' = ops + 1
    /\ UNCHANGED << entered, produced, returned >>
    /\ UNCHANGED otherVars

__enter__ ==
    /\ ops < MaxOps
    /\ ~entered
    /\ self' = do_enter(self)
    /\ entered' = TRUE
    /\ last' = Observed("__enter__",
                       [outcome |-> "return", cleaned |-> FALSE],
                       "self", "", "")
    /\ ops' = ops + 1
    /\ UNCHANGED << stream, telemetry, produced, returned, failures >>
    /\ UNCHANGED otherVars

__exit__ ==
    /\ ops < MaxOps
    /\ entered
    /\ \E exc_type \in {""} \cup ConsumerErrors, f \in FailurePoints :
         \E r \in {do_exit(self, f, exc_type)} :
             /\ Happens(f, r)
             /\ self' = r.w
             /\ telemetry' = telemetry \o r.made
             /\ last' = Observed("__exit__", r, "False", "", exc_type)
             /\ failures' = failures + (IF f = 0 THEN 0 ELSE 1)
    /\ entered' = FALSE
    /\ ops' = ops + 1
    /\ UNCHANGED << stream, produced, returned >>
    /\ UNCHANGED otherVars

Next == __next__ \/ close \/ __enter__ \/ __exit__

Spec == Init /\ [][Next]_vars

(***************************************************************************)
(* chat_completions_create.traced_method and _set_response_attributes.     *)
(*                                                                         *)
(* One call of chat.completions.create goes through traced_method: it      *)
(* starts the span, emits one event per request message, calls the wrapped *)
(* method and either hands a StreamWrapper to the caller (stream=True) or  *)
(* records the response and ends the span itself.  The call is two steps: *)
(* traced_method runs it up to the call of the wrapped method, which waits *)
(* for the HTTP response, and wrapped_returns runs the rest once the       *)
(* wrapped method has returned or raised.  The wrapper a streaming call    *)
(* returns is then driven by the actions of the consumer above.            *)
(***************************************************************************)
GEN_AI_OPENAI_REQUEST_SERVICE_TIER == "gen_ai.openai.request.service_tier"

\* A choice of a ChatCompletion, as _set_response_attributes and
\* choice_to_event read it
CompletionChoice(index, finish_reason, content) ==
    [index |-> index, finish_reason |-> finish_reason, content |-> content]

\* The responses of the wrapped method to a call without stream=True
\* (openai ChatCompletion): model, id, service_tier, usage and choices[]
ResponseCatalog ==
    << Chunk(Some("chatcmpl-7"), Some("gpt-4o"), Some("default"),
             Usage(9, 4),
             << CompletionChoice(0, Some("stop"), Some("Hello")) >>),
       Chunk(Some(""), Some("gpt-4o-mini"), None, None, << >>),
       Chunk(Some("chatcmpl-8"), Some("gpt-4o-mini"), None, Usage(2, 0),
             << CompletionChoice(0, None, None),
                CompletionChoice(1, Some("length"), Some("B")) >>) >>

ResponseIds == 1..Len(ResponseCatalog)

\* kwargs["messages"] of the calls
MessageLists ==
    { << >>, << [role |-> "user", content |-> "What time is it?"] >> }

\* The wrapped method has been called and has not returned
Pending == [kind |-> "pending", id |-> 0, error |-> ""]

\* What the wrapped method does: returns the response id of the catalog,
\* returns a stream of chunks, or raises the exception error
WrappedOutcomes(streaming) ==
    (IF streaming
     THEN {[kind |-> "stream", id |-> 0, error |-> ""]}
     ELSE {[kind |-> "response", id |-> i, error |-> ""] : i \in ResponseIds})
    \cup {[kind |-> "error", id |-> 0, error |-> e] : e \in TransportErrors}

\* The calls of chat.completions.create: kwargs (stream, messages), whether
\* the span started for it is recording, and the capture_content setting
\* of the instrumentor; wrapped is what the wrapped method has done
Requests ==
    {[stream |-> s, messages |-> m, recording |-> rec, wrapped |-> Pending,
      capture_content |-> c] :
         s \in BOOLEAN, m \in MessageLists, rec \in BOOLEAN, c \in BOOLEAN}

\* utils.is_streaming(kwargs)
is_streaming(req) == req.stream

\* utils.message_to_event(message, capture_content): the event of a request
\* message, named after its role, its content present only when captured
message_to_event(message, capture) ==
    Call("emit", "gen_ai." \o message.role \o ".message",
         [content |-> IF capture THEN Some(message.content) ELSE None])

\* utils.choice_to_event(choice, capture_content): the gen_ai.choice event
\* of a response choice
choice_to_event(choice, capture) ==
    emit([index |-> choice.index,
          finish_reason |-> IF Truthy(choice.finish_reason)
                            THEN choice.finish_reason[1] ELSE "error",
          message |-> [role |-> "assistant",
                       content |-> IF capture THEN choice.content
                                   ELSE None]])

\* "if span.is_recording(): for message in kwargs.get("messages", []):
\* event_logger.emit(message_to_event(message, capture_content))"
MessageEvents(req) ==
    IF req.recording
    THEN [i \in 1..Len(req.messages) |->
             message_to_event(req.messages[i], req.capture_content)]
    ELSE << >>

\* _set_response_attributes: its telemetry calls, in order
_set_response_attributes(result, capture) ==
    << set_span_attribute(GEN_AI_RESPONSE_MODEL, result.model) >>
    \o (IF result.choices # << >>
        THEN [i \in 1..Len(result.choices) |->
                 choice_to_event(result.choices[i], capture)]
             \o << set_span_attribute(
                       GEN_AI_RESPONSE_FINISH_REASONS,
                       [i \in 1..Len(result.choices) |->
                           IF Truthy(result.choices[i].finish_reason)
                           THEN result.choices[i].finish_reason[1]
                           ELSE "error"]) >>
        ELSE << >>)
    \o (IF Truthy(result.id)
        THEN << set_span_attribute(GEN_AI_RESPONSE_ID, result.id) >>
        ELSE << >>)
    \o (IF Truthy(result.service_tier)
        THEN << set_span_attribute(GEN_AI_OPENAI_REQUEST_SERVICE_TIER,
                                   result.service_tier) >>
        ELSE << >>)
    \o (IF result.usage # None
        THEN << set_span_attribute(GEN_AI_USAGE_INPUT_TOKENS,
                                   result.usage[1].prompt_tokens),
                set_span_attribute(GEN_AI_USAGE_OUTPUT_TOKENS,
                                   result.usage[1].completion_tokens) >>
        ELSE << >>)

\* A faulty try block, which falls through to span.end() for a stream too
TryCalls_ends_stream(req) ==
    (IF req.recording /\ ~is_streaming(req)
     THEN _set_response_attributes(ResponseCatalog[req.wrapped.id],
                                   req.capture_content)
     ELSE << >>)
    \o << end >>

\* The telemetry calls of the try block once wrapped() has returned: none
\* for a stream (the wrapper is returned at once), else the response
\* attributes of a recording span and span.end()
TryCalls(req) ==
    IF is_streaming(req) THEN << >>
    ELSE (IF req.recording
          THEN _set_response_attributes(ResponseCatalog[req.wrapped.id],
                                        req.capture_content)
          ELSE << >>)
         \o << end >>

\* The telemetry calls of "except Exception as error"
ExceptCalls(req, error) ==
    << set_status(str(error)) >>
    \o (IF req.recording THEN << set_attribute(ERROR_TYPE, error) >>
        ELSE << >>)
    \o << end >>

\* traced_method for the call req up to the call of the wrapped method,
\* its f-th telemetry call raising: the calls made and the exception that
\* ends the call ("" when the wrapped method is called).  The message
\* events are emitted before the try block, so an exception of theirs
\* propagates at once.
BeforeWrapped(req, f) == Run(MessageEvents(req), "", 0, f)

\* traced_method for the call req from the point where the wrapped method
\* has done req.wrapped, the f-th telemetry call from there raising: the
\* calls made, and what the caller observes (outcome is "return" or the
\* type name of the exception that propagates; value is what is
\* returned).  An exception of the try block runs the handler, which
\* re-raises it unless a call of the handler raises.
AfterWrapped(req, f) ==
    LET body == IF req.wrapped.kind = "error"
                THEN [made |-> << >>, exc |-> req.wrapped.error]
                ELSE Run(TryCalls(req), "", 0, f)
        handler == Run(ExceptCalls(req, body.exc), "", Len(body.made), f)
    IN  IF body.exc = ""
        THEN [made |-> body.made, outcome |-> "return",
              value |-> IF is_streaming(req) THEN "wrapper" ELSE "result"]
        ELSE [made |-> body.made \o handler.made,
              outcome |-> IF handler.exc # "" THEN handler.exc ELSE body.exc,
              value |-> ""]

\* what the caller of traced_method observed
Called(outcome, value) ==
    [method |-> "traced_method", outcome |-> outcome, value |-> value,
     source |-> "", exc_type |-> "", cleaned |-> FALSE, armed |-> FALSE,
     first |-> 1]

\* the wrapped method is running
InFlight == request # None /\ last.method = "" /\ request[1].wrapped = Pending

\* No call has been made yet: there is no wrapper and no span
CallInit ==
    /\ self = None
    /\ stream = "open"
    /\ entered = FALSE
    /\ telemetry = << >>
    /\ produced = << >>
    /\ returned = << >>
    /\ last = [method |-> "", outcome |-> "", value |-> "", source |-> "",
               exc_type |-> "", cleaned |-> FALSE, armed |-> FALSE,
               first |-> 1]
    /\ ops = 0
    /\ failures = 0
    /\ request = None
    /\ threads = << >>
    /\ connection = None
    /\ invoked = << >>
    /\ context = << >>
    /\ detected = << >>

\* traced_method is called: it starts the span, emits the message events
\* and calls the wrapped method, unless an event raised
traced_method ==
    /\ request = None
    /\ ops < MaxOps
    /\ \E req \in Requests, f \in FailurePoints :
         \E r \in {BeforeWrapped(req, f)} :
             /\ Happens(f, r)
             /\ request' = Some(req)
             /\ telemetry' = r.made
             /\ last' = IF r.exc # "" THEN Called(r.exc, "") ELSE last
             /\ failures' = failures + (IF f = 0 THEN 0 ELSE 1)
    /\ ops' = ops + 1
    /\ UNCHANGED << self, stream, entered, produced, returned >>
    /\ UNCHANGED << threads, connection, invoked, context, detected >>

\* the wrapped method returns or raises, and traced_method runs to its end
wrapped_returns ==
    /\ InFlight
    /\ \E o \in WrappedOutcomes(is_streaming(request[1])),
          f \in FailurePoints :
         \E req \in {[request[1] EXCEPT !.wrapped = o]} :
            \E r \in {AfterWrapped(req, f)} :
                /\ Happens(f, r)
                /\ request' = Some(req)
                /\ self' = IF r.value = "wrapper"
                           THEN StreamWrapper(req.capture_content) ELSE None
                /\ telemetry' = telemetry \o r.made
                /\ last' = Called(r.outcome, r.value)
                /\ failures' = failures + (IF f = 0 THEN 0 ELSE 1)
    /\ UNCHANGED << stream, entered, produced, returned, ops >>
    /\ UNCHANGED << threads, connection, invoked, context, detected >>

\* The consumer drives the wrapper a streaming call returned
Consume ==
    /\ self # None
    /\ Next

CallNext == traced_method \/ wrapped_returns \/ Consume

CallSpec == CallInit /\ [][CallNext]_vars

(***************************************************************************)
(* StreamWrapper.cleanup under two callers.                                *)
(*                                                                         *)
(* cleanup() reads self._span_started when it begins and clears it after   *)
(* span.end() has returned; it takes no lock.  Two threads share one       *)
(* wrapper whose stream has delivered its chunks and whose consumer has    *)
(* read them: one calls close(), the other calls __next__ and receives     *)
(* StopIteration.  A step of a thread is its call on the stream            *)
(* (self.stream.close() or next(self.stream)), the test of the guard, one  *)
(* call on the span or on the event logger, or the reset of the guard; the *)
(* other thread may run between any two steps.  A thread is at "called"    *)
(* when it has entered its method, at "ready" before cleanup(), then at    *)
(* the part of cleanup() it executes next ("attributes", "events", "end",  *)
(* "reset"), having made `made` calls of that part, and at "done" or       *)
(* "raised" when cleanup() has returned or raised.                         *)
(***************************************************************************)
\* The threads, named after the method that makes them call cleanup()
Threads == {"close", "__next__"}

\* chunks the stream has delivered before the threads call cleanup()
MaxDelivered == 1

\* The chunk sequences the stream has delivered before the threads run
Deliveries ==
    UNION {[1..n -> ChunkIds] : n \in 0..MaxDelivered}

\* A wrapper that has folded a delivery without an exception
FoldedWrappers(ids) ==
    {FoldChunks(StreamWrapper(capture), ids, 1).w : capture \in BOOLEAN}

\* the position of a thread
At(part, made) == [at |-> part, made |-> made]

ThreadInit ==
    /\ \E ids \in Deliveries :
          /\ FoldChunks(StreamWrapper(TRUE), ids, 1).exc = ""
          /\ self \in FoldedWrappers(ids)
          /\ produced = ids
          /\ returned = ids
    /\ stream = "open"
    /\ entered = FALSE
    /\ telemetry = << >>
    /\ last = IF returned = << >>
              THEN [method |-> "__init__", outcome |-> "return",
                    value |-> "self", source |-> "", exc_type |-> "",
                    cleaned |-> FALSE, armed |-> FALSE, first |-> 1]
              ELSE [method |-> "__next__", outcome |-> "return",
                    value |-> "chunk", source |-> "chunk", exc_type |-> "",
                    cleaned |-> FALSE, armed |-> TRUE, first |-> 1]
    /\ ops = Len(returned)
    /\ failures = 0
    /\ request = None
    /\ threads = [t \in Threads |-> At("called", 0)]
    /\ connection = None
    /\ invoked = << >>
    /\ context = << >>
    /\ detected = << >>

\* what a step of a thread leaves alone besides self, stream, telemetry
\* and threads
ThreadFrame ==
    UNCHANGED << entered, produced, returned, last, ops, failures,
                 request, connection, invoked, context, detected >>

\* where cleanup() goes when the loop over the choice buffers is left:
\* to span.end(), or out with the exception of a message that cannot be
\* built
AfterEvents(w) ==
    IF CleanupError(w) = "" THEN At("end", 0) ELSE At("raised", 0)

\* where cleanup() goes after its last set_span_attribute call
AfterAttributes(w) ==
    IF CleanupEvents(w) # << >> THEN At("events", 0) ELSE AfterEvents(w)

\* the call `call`, made and returned
Made(call) == Run(<< call >>, "", 0, 0).made

\* The call a thread makes on the stream before cleanup(): close() runs
\* "self.stream.close()", __next__ runs "next(self.stream)", which raises
\* StopIteration
stream_call(t) ==
    /\ threads[t].at = "called"
    /\ stream' = IF t = "close" THEN "closed" ELSE StreamAfter(StopOutcome)
    /\ threads' = [threads EXCEPT ![t] = At("ready", 0)]
    /\ UNCHANGED << self, telemetry >>
    /\ ThreadFrame

\* "if self._span_started:"
cleanup_guard(t) ==
    /\ threads[t].at = "ready"
    /\ threads' = [threads EXCEPT
                      ![t] = IF self.span_started THEN At("attributes", 0)
                             ELSE At("done", 0)]
    /\ UNCHANGED << self, telemetry >>
    /\ UNCHANGED stream
    /\ ThreadFrame

\* the next set_span_attribute call of cleanup
cleanup_attributes(t) ==
    /\ threads[t].at = "attributes"
    /\ \E n \in {threads[t].made + 1} :
          /\ telemetry' = telemetry \o Made(CleanupAttributes(self)[n])
          /\ threads' = [threads EXCEPT
                            ![t] = IF n < Len(CleanupAttributes(self))
                                   THEN At("attributes", n)
                                   ELSE AfterAttributes(self)]
    /\ UNCHANGED self
    /\ UNCHANGED stream
    /\ ThreadFrame

\* the next turn of the loop that builds and emits one event per choice
\* buffer
cleanup_events(t) ==
    /\ threads[t].at = "events"
    /\ \E n \in {threads[t].made + 1} :
          /\ telemetry' = telemetry \o Made(CleanupEvents(self)[n])
          /\ threads' = [threads EXCEPT
                            ![t] = IF n < Len(CleanupEvents(self))
                                   THEN At("events", n)
                                   ELSE AfterEvents(self)]
    /\ UNCHANGED self
    /\ UNCHANGED stream
    /\ ThreadFrame

\* "self.span.end()"
cleanup_end(t) ==
    /\ threads[t].at = "end"
    /\ telemetry' = telemetry \o Made(end)
    /\ threads' = [threads EXCEPT ![t] = At("reset", 0)]
    /\ UNCHANGED self
    /\ UNCHANGED stream
    /\ ThreadFrame

\* "self._span_started = False"
cleanup_reset(t) ==
    /\ threads[t].at = "reset"
    /\ self' = [self EXCEPT !.span_started = FALSE]
    /\ threads' = [threads EXCEPT ![t] = At("done", 0)]
    /\ UNCHANGED telemetry
    /\ UNCHANGED stream
    /\ ThreadFrame

ThreadNext ==
    \E t \in Threads :
        \/ stream_call(t)
        \/ cleanup_guard(t)
        \/ cleanup_attributes(t)
        \/ cleanup_events(t)
        \/ cleanup_end(t)
        \/ cleanup_reset(t)

ThreadSpec == ThreadInit /\ [][ThreadNext]_vars

(***************************************************************************)
(* MySQLInstrumentor.instrument_connection / uninstrument_connection       *)
(* (opentelemetry-instrumentation-mysql).                                  *)
(*                                                                         *)
(* The state is one mysql-connector connection: its cursor_factory and the *)
(* two attributes the instrumentor keeps on it.  An attribute that is not  *)
(* set is None; one that is set holds Some(value), so a saved factory of   *)
(* None is Some(None).  The calls made are logged in invoked, each with    *)
(* the connection as it was before the call.                               *)
(***************************************************************************)
\* calls made on one connection
MaxCalls == 4

\* The wrapper and the other packages take no part in a specification
WrapperUnused ==
    /\ self = None
    /\ stream = "closed"
    /\ entered = FALSE
    /\ telemetry = << >>
    /\ produced = << >>
    /\ returned = << >>
    /\ last = [method |-> "", outcome |-> "", value |-> "", source |-> "",
               exc_type |-> "", cleaned |-> FALSE, armed |-> FALSE,
               first |-> 1]
    /\ ops = 0
    /\ failures = 0
    /\ request = None
    /\ threads = << >>

\* A cursor class: its name, the class it derives from and, for a traced
\* one, the tracer provider of its CursorTracer
CursorFactory(class, base, tracer_provider) ==
    [class |-> class, base |-> base, tracer_provider |-> tracer_provider]

\* connection.cursor_factory of a connection the application opened: None
\* or a cursor class of mysql-connector
OriginalFactories ==
    {None,
     Some(CursorFactory("MySQLCursorDict", "MySQLCursor", None)),
     Some(CursorFactory("CMySQLCursorBuffered", "CMySQLCursor", None))}

\* the tracer_provider argument of instrument_connection
TracerProviders == {None, Some("sdk")}

\* A connection on which the instrumentor has set nothing
Connection(cursor_factory) ==
    [cursor_factory |-> cursor_factory,
     _is_instrumented_by_opentelemetry |-> None,
     _otel_orig_cursor_factory |-> None]

\* _new_cursor_factory(tracer_provider=tracer_provider): a subclass of
\* CMySQLCursor (base_factory is not passed) whose execute, executemany
\* and callproc are traced
_new_cursor_factory(tracer_provider) ==
    CursorFactory("TracedCursorFactory", "CMySQLCursor", tracer_provider)

\* MySQLInstrumentor.instrument_connection: the connection after it
instrument_connection(conn, tracer_provider) ==
    LET c == IF conn._is_instrumented_by_opentelemetry = None
             THEN [conn EXCEPT
                      !._is_instrumented_by_opentelemetry = Some(FALSE)]
             ELSE conn
    IN  IF ~c._is_instrumented_by_opentelemetry[1]
        THEN [c EXCEPT
                 !._otel_orig_cursor_factory = Some(c.cursor_factory),
                 !.cursor_factory = Some(_new_cursor_factory(tracer_provider)),
                 !._is_instrumented_by_opentelemetry = Some(TRUE)]
        ELSE c

\* MySQLInstrumentor.uninstrument_connection: the connection after it
uninstrument_connection(conn) ==
    [conn EXCEPT
        !.cursor_factory = IF conn._otel_orig_cursor_factory # None
                           THEN conn._otel_orig_cursor_factory[1]
                           ELSE None]

\* an entry of the log of calls
Invocation(method, tracer_provider) ==
    [method |-> method, tracer_provider |-> tracer_provider,
     before |-> connection]

MySQLInit ==
    /\ WrapperUnused
    /\ connection \in {Connection(f) : f \in OriginalFactories}
    /\ invoked = << >>
    /\ context = << >>
    /\ detected = << >>

Instrument ==
    /\ Len(invoked) < MaxCalls
    /\ \E tp \in TracerProviders :
          /\ connection' = instrument_connection(connection, tp)
          /\ invoked' = Append(invoked,
                               Invocation("instrument_connection", tp))
    /\ UNCHANGED wrapperVars
    /\ UNCHANGED << request, threads, context, detected >>

Uninstrument ==
    /\ Len(invoked) < MaxCalls
    /\ connection' = uninstrument_connection(connection)
    /\ invoked' = Append(invoked,
                         Invocation("uninstrument_connection", None))
    /\ UNCHANGED wrapperVars
    /\ UNCHANGED << request, threads, context, detected >>

MySQLNext == Instrument \/ Uninstrument

MySQLSpec == MySQLInit /\ [][MySQLNext]_vars

(***************************************************************************)
(* AzureVMResourceDetector.detect (opentelemetry-resource-detector-azure). *)
(*                                                                         *)
(* The runtime context is the stack of the values attached and not yet     *)
(* detached; the token attach() returns is the height of the stack after   *)
(* it, and detach(token) restores the stack below that height.  A call of  *)
(* detect() is two steps: it attaches the suppression key and sends the    *)
(* metadata request (action detect), and, the key attached, waits in       *)
(* urlopen for the answer; with the answer it builds the Resource (action  *)
(* urlopen_returns).  What the metadata endpoint answers is the input of   *)
(* the second step.  Each call is logged in detected: "pending" while it   *)
(* waits, then with the Resource it returned or the exception it raised.   *)
(***************************************************************************)
\* calls of detect() in one run
MaxDetects == 3

_AZURE_VM_SCALE_SET_NAME_ATTRIBUTE == "azure.vm.scaleset.name"

_AZURE_VM_SKU_ATTRIBUTE == "azure.vm.sku"

EXPECTED_AZURE_AMS_ATTRIBUTES ==
    << _AZURE_VM_SCALE_SET_NAME_ATTRIBUTE, _AZURE_VM_SKU_ATTRIBUTE,
       "cloud.platform", "cloud.provider", "cloud.region",
       "cloud.resource_id", "host.id", "host.name", "host.type", "os.type",
       "os.version", "service.instance.id" >>

\* the key of the metadata document _get_attribute_from_metadata reads for
\* an attribute; "" for the two attributes that are constants
MetadataKey(attribute_key) ==
    CASE attribute_key = _AZURE_VM_SCALE_SET_NAME_ATTRIBUTE -> "vmScaleSetName"
      [] attribute_key = _AZURE_VM_SKU_ATTRIBUTE -> "sku"
      [] attribute_key = "cloud.region" -> "location"
      [] attribute_key = "cloud.resource_id" -> "resourceId"
      [] attribute_key \in {"host.id", "service.instance.id"} -> "vmId"
      [] attribute_key = "host.name" -> "name"
      [] attribute_key = "host.type" -> "vmSize"
      [] attribute_key = "os.type" -> "osType"
      [] attribute_key = "os.version" -> "version"
      [] OTHER -> ""

\* _get_attribute_from_metadata for a document that has the key it reads;
\* an attribute that is none of the expected ones gets ""
_get_attribute_from_metadata(metadata_json, attribute_key) ==
    CASE attribute_key = "cloud.platform" -> "azure_vm"
      [] attribute_key = "cloud.provider" -> "azure"
      [] MetadataKey(attribute_key) = "" -> ""
      [] OTHER -> metadata_json[MetadataKey(attribute_key)]

\* metadata_json[...] raises KeyError for these attributes
MissingKeys(metadata_json) ==
    {i \in 1..Len(EXPECTED_AZURE_AMS_ATTRIBUTES) :
        /\ MetadataKey(EXPECTED_AZURE_AMS_ATTRIBUTES[i]) # ""
        /\ MetadataKey(EXPECTED_AZURE_AMS_ATTRIBUTES[i])
              \notin DOMAIN metadata_json}

\* The compute metadata of a VM, as the instance metadata service returns it
VmMetadata(name, location, version) ==
    [vmScaleSetName |-> "", sku |-> "20_04-lts", location |-> location,
     resourceId |-> "/subscriptions/s/resourceGroups/g/" \o name,
     vmId |-> "02aab8a4", name |-> name, vmSize |-> "Standard_D2s_v3",
     osType |-> "Linux", version |-> version]

\* What urlopen(request, timeout=0.2) and loads(response.read()) do: raise
\* URLError (no metadata service), raise another exception (a timeout
\* while reading, a body that is not JSON), or return the document json
MetadataResponses ==
    {[kind |-> "URLError", json |-> << >>],
     [kind |-> "Exception", json |-> << >>],
     [kind |-> "json", json |-> << >>],
     [kind |-> "json", json |-> VmMetadata("vm-a", "westus", "20.04")],
     [kind |-> "json", json |-> VmMetadata("vm-b", "northeurope", "22.04")],
     [kind |-> "json", json |-> [name |-> "vm-c", location |-> "westus"]]}

\* _get_azure_vm_metadata: the document, or None when the request failed
_get_azure_vm_metadata(response) ==
    IF response.kind = "json" THEN Some(response.json) ELSE None

\* attach(set_value(_SUPPRESS_INSTRUMENTATION_KEY, True)): the context
\* after it; the token is its height
attach(ctx) ==
    Append(ctx, [key |-> "suppress_instrumentation", value |-> TRUE])

\* detach(token): the context as it was before the attach that gave token
detach(ctx, token) == SubSeq(ctx, 1, token - 1)

\* AzureVMResourceDetector.detect from the answer of the metadata request
\* on, in the context ctx it attached to with token: the context when it
\* returns or raises, the outcome ("return" or the exception's type name)
\* and the values of the attributes of the Resource, in the order of
\* EXPECTED_AZURE_AMS_ATTRIBUTES (none for an empty Resource).
\* "if not metadata_json" holds for None and for an empty document.
after_urlopen(ctx, token, response) ==
    LET metadata_json == _get_azure_vm_metadata(response)
    IN  IF metadata_json = None \/ metadata_json[1] = << >>
        THEN [context |-> ctx, outcome |-> "return", attributes |-> << >>]
        ELSE IF MissingKeys(metadata_json[1]) # {}
        THEN [context |-> ctx, outcome |-> "KeyError", attributes |-> << >>]
        ELSE [context |-> detach(ctx, token),
              outcome |-> "return",
              attributes |->
                 [i \in 1..Len(EXPECTED_AZURE_AMS_ATTRIBUTES) |->
                     _get_attribute_from_metadata(
                         metadata_json[1], EXPECTED_AZURE_AMS_ATTRIBUTES[i])]]

\* the contexts detect() is called in: empty, or holding a current span
AmbientContexts ==
    {<< >>, << [key |-> "current-span", value |-> TRUE] >>}

AzureInit ==
    /\ WrapperUnused
    /\ connection = None
    /\ invoked = << >>
    /\ context \in AmbientContexts
    /\ detected = << >>

\* a call of detect() waits for the metadata service
Waiting == detected # << >> /\ detected[Len(detected)].outcome = "pending"

\* detect() up to the request: "attributes = {}", attach(...), and
\* _get_azure_vm_metadata() up to urlopen(request, timeout=0.2)
detect ==
    /\ ~Waiting
    /\ Len(detected) < MaxDetects
    /\ context' = attach(context)
    /\ detected' = Append(detected,
                          [response |-> "pending", outcome |-> "pending",
                           attributes |-> << >>, before |-> context,
                           token |-> Len(context) + 1])
    /\ UNCHANGED wrapperVars
    /\ UNCHANGED << request, threads, connection, invoked >>

\* urlopen answers or fails, and detect() runs to its return or raise
urlopen_returns ==
    /\ Waiting
    /\ \E response \in MetadataResponses :
         \E call \in {detected[Len(detected)]} :
           \E r \in {after_urlopen(context, call.token, response)} :
             /\ context' = r.context
             /\ detected' = [detected EXCEPT ![Len(detected)] =
                                [call EXCEPT !.response = response.kind,
                                             !.outcome = r.outcome,
                                             !.attributes = r.attributes]]
    /\ UNCHANGED wrapperVars
    /\ UNCHANGED << request, threads, connection, invoked >>

AzureNext == detect \/ urlopen_returns

AzureSpec == AzureInit /\ [][AzureNext]_vars

(***************************************************************************)
(* Properties.                                                             *)
(***************************************************************************)
\* indices of the telemetry calls the last method made
LastCalls == last.first..Len(telemetry)

\* a telemetry call of the last method raised
LastFailed == \E i \in LastCalls : ~telemetry[i].ok

\* number of span.end() calls made so far
EndCalls == Cardinality({i \in DOMAIN telemetry : telemetry[i].op = "end"})

\* number of gen_ai.choice events emitted so far
EmitCalls == Cardinality({i \in DOMAIN telemetry : telemetry[i].op = "emit"})

\* the last method called span.end()
LastEnded == \E i \in LastCalls : telemetry[i].op = "end"

\* the last method began by recording the exception error on the span
LastRecorded(error) ==
    /\ Len(telemetry) > last.first
    /\ telemetry[last.first].op = "set_status"
    /\ telemetry[last.first].key = "ERROR"
    /\ telemetry[last.first + 1].op = "set_attribute"
    /\ telemetry[last.first + 1].key = ERROR_TYPE
    /\ telemetry[last.first + 1].val = error

\* no span.end() was called before the last method's first two calls
NotEndedBeforeRecording ==
    \A i \in 1..Len(telemetry) :
        i <= last.first + 1 => telemetry[i].op # "end"

\* the consumer's iteration has ended: __next__ raised or close() was called
ConsumptionEnded ==
    \/ last.method = "close"
    \/ last.method = "__next__" /\ last.outcome # "return"

\* the wrapper a fresh one becomes by folding exactly the chunks returned
FoldOfReturned ==
    FoldChunks(StreamWrapper(self.capture_content), returned, 1).w

\* the telemetry calls of the last method are exactly `calls`, all made
LastCallsAre(calls) ==
    /\ Len(telemetry) - last.first + 1 = Len(calls)
    /\ \A i \in 1..Len(calls) :
          LET made == telemetry[last.first + i - 1]
          IN  /\ made.op = calls[i].op
              /\ made.key = calls[i].key
              /\ made.val = calls[i].val
              /\ made.ok

\* C1: for every sequence of chunks fed to a fresh wrapper, once consumption
\* has ended (by exhaustion, by close() or by an exception raised while a
\* chunk is fetched or folded) span.end() has been called exactly once.
C1_SpanEndedExactlyOnce ==
    (failures = 0 /\ ConsumptionEnded) => EndCalls = 1

\* C2: finalization is idempotent and Finalized is absorbing: once cleanup
\* has completed (the guard is cleared), no later call on the wrapper adds a
\* span.end() call or a gen_ai.choice event, and the guard is never armed
\* again.
C2_FinalizedIsAbsorbing ==
    [][~self.span_started =>
          /\ ~self'.span_started
          /\ EndCalls' = EndCalls
          /\ EmitCalls' = EmitCalls]_vars

\* C3: if a set_attribute or emit call raises during cleanup entered with
\* the guard armed, span.end() has still been called by the time cleanup
\* returns or raises.
C3_SpanEndedDespiteTelemetryFailure ==
    (/\ last.cleaned
     /\ last.armed
     /\ \E i \in LastCalls :
           /\ ~telemetry[i].ok
           /\ telemetry[i].op \in {"set_attribute", "emit"}
           /\ telemetry[i].key # ERROR_TYPE)
    => LastEnded

\* C4: a failure raised by the telemetry collaborator inside __next__,
\* close() or __exit__ is never what the consumer observes: on exhaustion
\* the consumer sees StopIteration, on a transport failure the transport's
\* exception, and close() returns normally.
C4_TelemetryFailureNeverObserved ==
    LastFailed =>
        /\ last.outcome # "TelemetryError"
        /\ (last.method = "__next__" /\ last.source = "StopIteration")
              => last.outcome = "StopIteration"
        /\ (last.method = "__next__" /\ last.source \in TransportErrors)
              => last.outcome = last.source
        /\ last.method = "close" => last.outcome = "return"

\* C5: when next(self.stream) raises a non-exhaustion exception E, __next__
\* sets the ERROR status and error.type = E's type name, then finalizes (the
\* span is ended), then re-raises E; status and attribute are recorded
\* before the span is ended.
C5_TransportErrorRecordedThenFinalized ==
    (last.method = "__next__" /\ last.source \in TransportErrors
     /\ ~LastFailed)
    => /\ LastRecorded(last.source)
       /\ EndCalls >= 1
       /\ ~self.span_started
       /\ NotEndedBeforeRecording
       /\ last.outcome = last.source

\* C6: when the underlying stream signals exhaustion, __next__ finalizes the
\* wrapper if it is not finalized yet and raises StopIteration, whatever the
\* buffers hold; no error status is set on this path.
C6_ExhaustionFinalizes ==
    (last.method = "__next__" /\ last.source = "StopIteration"
     /\ ~LastFailed)
    => /\ last.outcome = "StopIteration"
       /\ ~self.span_started
       /\ last.armed => LastEnded
       /\ \A i \in LastCalls : telemetry[i].op # "set_status"

\* C7: iteration through the wrapper is observationally equal to iteration
\* over the underlying stream: the values returned are exactly the chunks
\* the stream produced, in order, and __next__ raises exactly what
\* next(self.stream) raised.
C7_IterationTransparent ==
    failures = 0 =>
        /\ returned = produced
        /\ last.method = "__next__" =>
              last.outcome = (IF last.source = "chunk" THEN "return"
                              ELSE last.source)

\* C8: close() on a wrapper that is not finalized, after any prefix of the
\* chunks has been consumed, closes the underlying stream, ends the span
\* with the attributes and events derived from exactly the chunks consumed
\* so far, and raises nothing.
C8_CloseFinalizesPartialState ==
    (last.method = "close" /\ last.armed /\ ~LastFailed)
    => /\ stream = "closed"
       /\ last.outcome = "return"
       /\ ~self.span_started
       /\ LastCallsAre(CleanupAttributes(FoldOfReturned)
                       \o CleanupEvents(FoldOfReturned) \o << end >>)

\* C9: __exit__ always finalizes the wrapper and always returns False; with
\* an exception in flight the ERROR status and error.type are recorded
\* before the span is ended, and finalize runs even if recording fails.
C9_ExitFinalizesAndReturnsFalse ==
    last.method = "__exit__" =>
        /\ last.cleaned
        /\ ~self.span_started
        /\ last.outcome = "return"
        /\ last.value = "False"
        /\ (last.exc_type # "" /\ ~LastFailed)
              => LastRecorded(last.exc_type) /\ NotEndedBeforeRecording

\* C10: after the span has been ended no operation on the wrapper mutates
\* it: no set_status, set_attribute or end call follows a span.end() that
\* returned.
C10_NoSpanMutationAfterEnd ==
    \A i, j \in DOMAIN telemetry :
        (i < j /\ telemetry[i].op = "end" /\ telemetry[i].ok)
        => telemetry[j].op \notin {"set_status", "set_attribute", "end"}

(***************************************************************************)
(* The chunks fetched so far, read entry by entry, as the reference the    *)
(* assembled output is compared with.                                      *)
(***************************************************************************)
RECURSIVE EntriesOf(_, _)
\* the per-choice entries of the chunks ids[i..], in arrival order
EntriesOf(ids, i) ==
    IF i > Len(ids) THEN << >>
    ELSE (IF ChunkCatalog[ids[i]].choices = None THEN << >>
          ELSE ChunkCatalog[ids[i]].choices[1]) \o EntriesOf(ids, i + 1)

\* the non-null delta.content fragments seen for choice index c
ContentFragments(ids, c) ==
    LET seen == SelectSeq(EntriesOf(ids, 1),
                          LAMBDA e : /\ e.index = c
                                     /\ e.delta # None
                                     /\ e.delta[1].content # None)
    IN  [i \in 1..Len(seen) |-> seen[i].delta[1].content[1]]

\* the gen_ai.choice events the last method emitted
LastEvents == {i \in LastCalls : telemetry[i].op = "emit" /\ telemetry[i].ok}

\* C11: for every choice index c, the text fragments held for c are exactly
\* the non-null delta.content fragments seen for index c, in arrival order
\* (a choice without a buffer has seen none), and the content a summary
\* event reports for c is their concatenation.
C11_TextIsConcatenationOfFragments ==
    /\ \A c \in 0..(MaxChoiceBuffers - 1) :
          IF c < Len(self.choice_buffers)
          THEN self.choice_buffers[c + 1].text_content
                   = ContentFragments(produced, c)
          ELSE ContentFragments(produced, c) = << >>
    /\ \A i \in LastEvents :
          LET body == telemetry[i].val
          IN  body.message.content # None =>
                  body.message.content[1]
                      = Join(ContentFragments(produced, body.index), 1)

\* C11 witness: a summary event reports for a choice the concatenation of two
\* different fragments while another choice holds a fragment of its own
C11_Witness ==
    \E i \in LastEvents :
        LET body == telemetry[i].val
            mine == ContentFragments(produced, body.index)
        IN  /\ body.message.content # None
            /\ Len(mine) = 2
            /\ mine[1] # mine[2]
            /\ body.message.content[1] = mine[1] \o mine[2]
            /\ \E c \in 0..(MaxChoiceBuffers - 1) :
                  c # body.index /\ ContentFragments(produced, c) # << >>

RECURSIVE ToolCallDeltasOf(_, _, _)
\* the tool-call deltas of the entries[i..] that belong to choice index c,
\* in arrival order
ToolCallDeltasOf(entries, c, i) ==
    IF i > Len(entries) THEN << >>
    ELSE (IF /\ entries[i].index = c
             /\ entries[i].delta # None
             /\ entries[i].delta[1].tool_calls # None
          THEN entries[i].delta[1].tool_calls[1] ELSE << >>)
         \o ToolCallDeltasOf(entries, c, i + 1)

\* the tool-call deltas seen for the pair (choice index c, tool-call index t)
DeltasFor(ids, c, t) ==
    SelectSeq(ToolCallDeltasOf(EntriesOf(ids, 1), c, 1),
              LAMBDA d : d.index = t)

\* the tool-call indices seen for choice index c
ToolCallIndices(ids, c) ==
    LET deltas == ToolCallDeltasOf(EntriesOf(ids, 1), c, 1)
    IN  {deltas[i].index : i \in 1..Len(deltas)}

\* the argument fragments seen for the pair (c, t): the function.arguments
\* values that are present
ArgumentFragments(ids, c, t) ==
    LET seen == SelectSeq(DeltasFor(ids, c, t),
                          LAMBDA d : /\ d.function # None
                                     /\ d.function[1].arguments # None)
    IN  [i \in 1..Len(seen) |-> seen[i].function[1].arguments[1]]

\* the first value of a sequence of optional values that is not None
FirstNonNull(options) ==
    LET present == {i \in 1..Len(options) : options[i] # None}
    IN  IF present = {} THEN None
        ELSE options[CHOOSE i \in present : \A x \in present : i <= x]

\* the last method ran cleanup() from the armed state and no telemetry call
\* raised
LastFinalized == last.cleaned /\ last.armed /\ ~LastFailed

\* every chunk fetched was folded without an exception and returned
AllFolded == returned = produced

\* every tool-call index below one that received a delta received one too:
\* the fold has left no unpopulated slot
NoIndexGap ==
    \A c \in 0..(MaxChoiceBuffers - 1) :
        \A t \in ToolCallIndices(produced, c) :
            \A u \in 0..t : u \in ToolCallIndices(produced, c)

\* C12: with content capture on, finalize reports for every pair (choice
\* index c, tool-call index t) that received a delta an arguments string
\* equal to the concatenation, in arrival order, of the argument fragments
\* seen for the pair; deltas whose function.arguments is absent add nothing.
\* Stated for the runs in which every chunk was folded without error and no
\* tool-call slot is left unpopulated.
C12_ArgumentsAreConcatenationOfFragments ==
    (LastFinalized /\ self.capture_content /\ AllFolded /\ NoIndexGap) =>
        \A c \in 0..(MaxChoiceBuffers - 1) :
            \A t \in ToolCallIndices(produced, c) :
                \E i \in LastEvents :
                    LET body == telemetry[i].val
                    IN  /\ body.index = c
                        /\ body.message.tool_calls # None
                        /\ Len(body.message.tool_calls[1]) > t
                        /\ body.message.tool_calls[1][t + 1].function.arguments
                               = Some(Join(ArgumentFragments(produced, c, t), 1))

\* the ids carried by the deltas seen for the pair (c, t), None where a
\* delta carried none
IdsSeen(ids, c, t) ==
    LET deltas == DeltasFor(ids, c, t)
    IN  [i \in 1..Len(deltas) |-> deltas[i].id]

\* the function names carried by the deltas seen for the pair (c, t)
NamesSeen(ids, c, t) ==
    LET deltas == DeltasFor(ids, c, t)
    IN  [i \in 1..Len(deltas) |->
            IF deltas[i].function = None THEN None
            ELSE deltas[i].function[1].name]

\* C13: for every pair (choice index c, tool-call index t) whose buffer is
\* populated, the call id and the function name it holds are the first
\* non-null id and the first non-null function name among the deltas seen
\* for the pair.  Stated for the runs in which every chunk was folded
\* without error.
C13_IdAndNameAreFirstNonNull ==
    AllFolded =>
        \A c \in 1..Len(self.choice_buffers) :
            \A t \in 1..Len(self.choice_buffers[c].tool_calls_buffers) :
                LET slot == self.choice_buffers[c].tool_calls_buffers[t]
                IN  slot # None =>
                      /\ slot[1].tool_call_id
                             = FirstNonNull(IdsSeen(produced, c - 1, t - 1))
                      /\ slot[1].function_name
                             = FirstNonNull(NamesSeen(produced, c - 1, t - 1))

\* the tool-call buffer list of choice index c in wrapper w, empty when the
\* choice has no buffer yet
OldSlots(w, c) ==
    IF c < Len(w.choice_buffers)
    THEN w.choice_buffers[c + 1].tool_calls_buffers ELSE << >>

\* C14: when __next__ folds a chunk that carries, for a choice whose
\* tool-call buffer list has fewer than k entries, a tool-call delta with
\* index k, the call returns, the list has length k+1 afterwards, the slots
\* below k that existed are unchanged, the new slots below k are None
\* placeholders and slot k is populated.  The delta may be any the
\* transport delivers, one without a function object included.
C14_IndexGapIsBackfilled ==
    [][\A id \in ChunkIds :
          produced' = Append(produced, id) =>
            \A c \in 0..(MaxChoiceBuffers - 1) :
                LET touched == ToolCallIndices(<< id >>, c)
                    old == OldSlots(self, c)
                    new == OldSlots(self', c)
                IN  \A k \in touched :
                      (Len(old) < k /\ \A x \in touched : x <= k) =>
                        /\ last'.outcome = "return"
                        /\ Len(new) = k + 1
                        /\ \A j \in 1..k :
                              (j - 1) \notin touched =>
                                 new[j] = (IF j <= Len(old) THEN old[j]
                                           ELSE None)
                        /\ new[k + 1] # None
                        /\ new[k + 1][1].index = k]_vars

\* the finish reasons the entries for choice index c carried, in arrival
\* order
FinishReasonsSeen(ids, c) ==
    LET seen == SelectSeq(EntriesOf(ids, 1),
                          LAMBDA e : e.index = c /\ Truthy(e.finish_reason))
    IN  [i \in 1..Len(seen) |-> seen[i].finish_reason[1]]

\* C15: the finish_reason of every summary event is the last finish reason
\* the choice received, and the sentinel "error" for a choice that never
\* received one.
C15_FinishReasonIsLastReceivedOrError ==
    \A i \in LastEvents :
        LET body == telemetry[i].val
            seen == FinishReasonsSeen(produced, body.index)
        IN  body.finish_reason
                = (IF seen = << >> THEN "error" ELSE seen[Len(seen)])

\* the gen_ai.choice events the last method emitted, in emission order
LastEventSeq ==
    SelectSeq(SubSeq(telemetry, last.first, Len(telemetry)),
              LAMBDA call : call.op = "emit")

\* C16: a finalize that runs from the armed state emits exactly one summary
\* event per choice buffer, in ascending choice-index order, each with role
\* "assistant" and body index equal to the index of its choice, and calls
\* span.end() once, after all of them.  Stated for the runs in which every
\* chunk was folded without error.
C16_OneEventPerChoiceBeforeEnd ==
    (LastFinalized /\ AllFolded) =>
        /\ Len(LastEventSeq) = Len(self.choice_buffers)
        /\ \A k \in 1..Len(LastEventSeq) :
              /\ LastEventSeq[k].val.index = k - 1
              /\ k <= Len(self.choice_buffers)
                    => LastEventSeq[k].val.index
                           = self.choice_buffers[k].index
              /\ LastEventSeq[k].val.message.role = "assistant"
        /\ Len(telemetry) >= last.first
        /\ telemetry[Len(telemetry)].op = "end"
        /\ \A i \in LastCalls :
              telemetry[i].op = "end" => i = Len(telemetry)

\* C17: when some choice has received a finish reason, the finalize that
\* runs from the armed state writes to the span a finish-reasons attribute
\* with one entry per choice buffer, in choice-index order, whose entry for
\* every choice that holds a finish reason is that finish reason.
C17_FinishReasonsAttributeListsChoices ==
    (/\ LastFinalized
     /\ AllFolded
     /\ \E c \in 1..Len(self.choice_buffers) :
           Truthy(self.choice_buffers[c].finish_reason))
    => \E i \in LastCalls :
          /\ telemetry[i].op = "set_attribute"
          /\ telemetry[i].key = GEN_AI_RESPONSE_FINISH_REASONS
          /\ Len(telemetry[i].val) = Len(self.choice_buffers)
          /\ \A c \in 1..Len(self.choice_buffers) :
                Truthy(self.choice_buffers[c].finish_reason) =>
                    telemetry[i].val[c]
                        = self.choice_buffers[c].finish_reason[1]

(***************************************************************************)
(* Non-interference of the streamed content with the events.  A chunk is   *)
(* redacted by removing every delta.content and every function.arguments   *)
(* value; two chunk sequences that differ only in these values have the    *)
(* same redaction.                                                         *)
(***************************************************************************)
RedactToolCall(d) ==
    [d EXCEPT !.function =
        IF @ = None THEN None ELSE Some([@[1] EXCEPT !.arguments = None])]

RedactEntry(e) ==
    IF e.delta = None THEN e
    ELSE [e EXCEPT !.delta = Some(
            [content |-> None,
             tool_calls |->
                 IF e.delta[1].tool_calls = None THEN None
                 ELSE Some([j \in 1..Len(e.delta[1].tool_calls[1]) |->
                              RedactToolCall(e.delta[1].tool_calls[1][j])])])]

Redact(chunk) ==
    IF chunk.choices = None THEN chunk
    ELSE [chunk EXCEPT !.choices =
            Some([j \in 1..Len(chunk.choices[1]) |->
                     RedactEntry(chunk.choices[1][j])])]

RECURSIVE FoldRedacted(_, _, _)
\* the wrapper w after process_chunk on the redacted chunks ids[i..], one
\* after the other, whether or not a call raised
FoldRedacted(w, ids, i) ==
    IF i > Len(ids) THEN w
    ELSE FoldRedacted(process_chunk(w, Redact(ChunkCatalog[ids[i]])).w,
                      ids, i + 1)

\* C18: with capture_content False the summary events are a function of the
\* redacted chunk sequence: the events a finalize emits are those the same
\* calls produce on the chunks with every content and arguments value
\* removed, and no event body carries a message content or a tool-call
\* arguments field.
C18_EventsIndependentOfContent ==
    ~self.capture_content =>
        /\ LastFinalized =>
              LET other == FoldRedacted(StreamWrapper(FALSE), produced, 1)
              IN  /\ Len(LastEventSeq) = Len(CleanupEvents(other))
                  /\ \A k \in 1..Len(LastEventSeq) :
                        LastEventSeq[k].val = CleanupEvents(other)[k].val
        /\ \A i \in DOMAIN telemetry :
              telemetry[i].op = "emit" =>
                  LET message == telemetry[i].val.message
                  IN  /\ message.content = None
                      /\ message.tool_calls # None =>
                            \A j \in 1..Len(message.tool_calls[1]) :
                                message.tool_calls[1][j].function.arguments
                                    = None

\* C18 witness: with capture_content False a finalize has emitted the event
\* of a choice for which text fragments and argument fragments were streamed
C18_Witness ==
    /\ ~self.capture_content
    /\ LastFinalized
    /\ \E i \in LastEvents :
          LET body == telemetry[i].val
          IN  /\ body.message.tool_calls # None
              /\ ContentFragments(produced, body.index) # << >>
              /\ \E t \in ToolCallIndices(produced, body.index) :
                    ArgumentFragments(produced, body.index, t) # << >>

\* C19: the message of a summary event carries a content field if and only
\* if capture_content is True and the text assembled for the choice, the
\* concatenation of its content fragments, is not the empty string.
C19_ContentIffCapturedAndNonEmpty ==
    \A i \in LastEvents :
        LET body == telemetry[i].val
            text == Join(ContentFragments(produced, body.index), 1)
        IN  body.message.content # None
                <=> (self.capture_content /\ text # "")

\* the text fragments of choice index c in wrapper w, none when the choice
\* has no buffer yet
OldText(w, c) ==
    IF c < Len(w.choice_buffers)
    THEN w.choice_buffers[c + 1].text_content ELSE << >>

\* the content values, None included, of the entries of chunk id that
\* belong to choice index c and carry a delta
ContentsOf(id, c) ==
    LET seen == SelectSeq(EntriesOf(<< id >>, 1),
                          LAMBDA e : e.index = c /\ e.delta # None)
    IN  [i \in 1..Len(seen) |-> seen[i].delta[1].content]

\* C20: when __next__ folds and returns a chunk, a choice whose delta
\* carries the content "" gains exactly one fragment, the empty string,
\* and a choice whose deltas all carry no content keeps its text fragments
\* unchanged.
C20_EmptyStringContentIsAppended ==
    [][\A id \in ChunkIds :
          (produced' = Append(produced, id) /\ last'.outcome = "return") =>
            \A c \in 0..(MaxChoiceBuffers - 1) :
                /\ ContentsOf(id, c) = << Some("") >>
                      => OldText(self', c) = Append(OldText(self, c), "")
                /\ (\A n \in 1..Len(ContentsOf(id, c)) :
                        ContentsOf(id, c)[n] = None)
                      => OldText(self', c) = OldText(self, c)]_vars

\* C20 witness: the chunk __next__ has just returned carried the content ""
\* for a choice, whose last text fragment is now the empty string, after a
\* chunk with a delta without content
C20_Witness ==
    /\ Len(produced) = 2
    /\ last.method = "__next__"
    /\ last.outcome = "return"
    /\ \E c \in 0..(MaxChoiceBuffers - 1) :
          /\ ContentsOf(produced[2], c) = << Some("") >>
          /\ OldText(self, c) = << "" >>
    /\ \E c \in 0..(MaxChoiceBuffers - 1) :
          /\ ContentsOf(produced[1], c) = << None >>
          /\ OldText(self, c) = << >>

\* the first value of a sequence of optional strings that is neither None
\* nor ""
FirstTruthy(options) ==
    LET present == {i \in 1..Len(options) : Truthy(options[i])}
    IN  IF present = {} THEN None
        ELSE options[CHOOSE i \in present : \A x \in present : i <= x]

\* C21: response_id, response_model and service_tier are first-write-wins:
\* each equals the value of the first chunk fetched that carried a non-empty
\* value for it, and is None while no chunk has carried one.
C21_ScalarsAreFirstWriteWins ==
    /\ self.response_id
          = FirstTruthy([i \in 1..Len(produced) |->
                           ChunkCatalog[produced[i]].id])
    /\ self.response_model
          = FirstTruthy([i \in 1..Len(produced) |->
                           ChunkCatalog[produced[i]].model])
    /\ self.service_tier
          = FirstTruthy([i \in 1..Len(produced) |->
                           ChunkCatalog[produced[i]].service_tier])

\* C21 witness: two chunks carrying different non-empty ids and models have
\* been folded and the wrapper holds those of the first
C21_Witness ==
    /\ Len(produced) = 2
    /\ Truthy(ChunkCatalog[produced[1]].id)
    /\ Truthy(ChunkCatalog[produced[2]].id)
    /\ ChunkCatalog[produced[1]].id # ChunkCatalog[produced[2]].id
    /\ ChunkCatalog[produced[1]].model # ChunkCatalog[produced[2]].model
    /\ self.response_id = ChunkCatalog[produced[1]].id
    /\ self.response_model = ChunkCatalog[produced[1]].model

\* the usage of the last chunk of ids that carried one; both counts are 0
\* when none did
LastUsage(ids) ==
    LET bearing == {i \in 1..Len(ids) : ChunkCatalog[ids[i]].usage # None}
    IN  IF bearing = {} THEN [prompt_tokens |-> 0, completion_tokens |-> 0]
        ELSE ChunkCatalog[ids[CHOOSE i \in bearing :
                                  \A x \in bearing : x <= i]].usage[1]

\* C22: token counts are last-write-wins: the wrapper holds, and a finalize
\* that runs from the armed state writes to the span, the prompt and the
\* completion count of the last usage-bearing chunk returned so far, both
\* of the same chunk, and 0 when no chunk carried usage.
C22_TokenCountsAreLastWriteWins ==
    /\ self.prompt_tokens = LastUsage(returned).prompt_tokens
    /\ self.completion_tokens = LastUsage(returned).completion_tokens
    /\ LastFinalized =>
          /\ \E i \in LastCalls :
                /\ telemetry[i].op = "set_attribute"
                /\ telemetry[i].key = GEN_AI_USAGE_INPUT_TOKENS
                /\ telemetry[i].val = LastUsage(returned).prompt_tokens
          /\ \E i \in LastCalls :
                /\ telemetry[i].op = "set_attribute"
                /\ telemetry[i].key = GEN_AI_USAGE_OUTPUT_TOKENS
                /\ telemetry[i].val = LastUsage(returned).completion_tokens

\* C22 witness: a finalize has written the counts after two usage-bearing
\* chunks with different counts were returned
C22_Witness ==
    /\ LastFinalized
    /\ Len(returned) = 2
    /\ ChunkCatalog[returned[1]].usage # None
    /\ ChunkCatalog[returned[2]].usage # None
    /\ ChunkCatalog[returned[1]].usage # ChunkCatalog[returned[2]].usage
    /\ \E i \in LastCalls :
          /\ telemetry[i].key = GEN_AI_USAGE_INPUT_TOKENS
          /\ telemetry[i].val
                = ChunkCatalog[returned[2]].usage[1].prompt_tokens

\* the choice indices of the entries fetched so far that carry a delta: the
\* indices the fold has created buffers for
FoldedIndices(ids) ==
    LET entries == EntriesOf(ids, 1)
    IN  {entries[i].index : i \in {j \in 1..Len(entries) :
                                      entries[j].delta # None}}

\* choice_buffers[i].index == i at every position, and the length is one
\* plus the largest choice index folded so far
DenseChoiceBuffers ==
    /\ \A i \in 1..Len(self.choice_buffers) :
          self.choice_buffers[i].index = i - 1
    /\ Len(self.choice_buffers)
          = (IF FoldedIndices(produced) = {} THEN 0
             ELSE 1 + CHOOSE m \in FoldedIndices(produced) :
                          \A x \in FoldedIndices(produced) : x <= m)

\* C23: in every reachable state the choice collection is dense and
\* index-consistent, and no step makes it shorter.
C23_ChoiceBuffersDenseAndGrowing ==
    /\ []DenseChoiceBuffers
    /\ [][Len(self'.choice_buffers) >= Len(self.choice_buffers)]_vars

\* C23 witness: a choice with index 1 arrived before any with index 0: the
\* buffer of choice 0 is a fresh empty one created to fill the gap
C23_Witness ==
    /\ Len(produced) = 1
    /\ Len(self.choice_buffers) = 2
    /\ self.choice_buffers[1] = ChoiceBuffer(0)
    /\ self.choice_buffers[2].index = 1
    /\ self.choice_buffers[2].text_content # << >>

\* C24: every choice index for which an entry carried a finish reason has a
\* buffer, and the buffer holds the last finish reason carried, whether or
\* not the entries carried a delta.  Stated for the runs in which every
\* chunk was folded without error.
C24_FinishReasonSetWithoutDelta ==
    AllFolded =>
        \A c \in 0..(MaxChoiceBuffers - 1) :
            LET seen == FinishReasonsSeen(produced, c)
            IN  seen # << >> =>
                  /\ c < Len(self.choice_buffers)
                  /\ self.choice_buffers[c + 1].finish_reason
                        = Some(seen[Len(seen)])

\* C27: after chunks that were all folded without error, a finalize that
\* runs from the armed state completes: it raises nothing of its own, it
\* emits the summary event of every choice buffer, it ends the span and it
\* clears the guard.
C27_FinalizeIsTotal ==
    (LastFinalized /\ AllFolded) =>
        /\ last.outcome \notin {"AttributeError", "TypeError"}
        /\ Cardinality(LastEvents) = Len(self.choice_buffers)
        /\ LastEnded
        /\ ~self.span_started

(***************************************************************************)
(* Properties of traced_method (specification CallSpec).                   *)
(***************************************************************************)
\* the call made through traced_method
TheRequest == request[1]

\* a streaming call has returned its wrapper to the caller
HandedOver == request # None /\ self # None

\* number of span.end() calls that returned
SpanEnds ==
    Cardinality({i \in DOMAIN telemetry :
                    telemetry[i].op = "end" /\ telemetry[i].ok})

\* the call `made` is the planned call `call`, and it returned
MadeAs(made, call) ==
    made.ok /\ made.op = call.op /\ made.key = call.key /\ made.val = call.val

\* C25: for a streaming call traced_method returns the StreamWrapper
\* without ending the span: when the wrapper is handed to the caller no
\* span.end() has been called, and from then on every span.end() is made by
\* a method of the wrapper that ran cleanup() with the guard armed, as the
\* last telemetry call of that method.
C25_SpanOpenAtHandOverEndedOnlyByFinalize ==
    /\ [](last.method = "traced_method" /\ last.value = "wrapper"
             => EndCalls = 0)
    /\ [][(HandedOver /\ EndCalls' # EndCalls)
             => /\ last'.cleaned
                /\ last'.armed
                /\ EndCalls' = EndCalls + 1
                /\ telemetry'[Len(telemetry')].op = "end"]_vars

\* a streaming call whose request-message event was emitted returned a
\* wrapper; the consumer read a chunk, and exhaustion then ended the span
C25_Witness ==
    /\ HandedOver
    /\ TheRequest.stream
    /\ TheRequest.recording
    /\ TheRequest.messages # << >>
    /\ returned # << >>
    /\ last.method = "__next__"
    /\ last.source = "StopIteration"
    /\ LastEnded
    /\ EndCalls = 1

\* C28: for a non-streaming call traced_method has ended the span exactly
\* once when it returns or raises, span.end() being its last telemetry
\* call; when the wrapped method raised, the span carries the ERROR status
\* with str(error), error.type if it is recording, and the caller receives
\* that same exception.
C28_NonStreamingCallEndsSpanOnce ==
    (last.method = "traced_method" /\ ~TheRequest.stream) =>
        /\ SpanEnds = 1
        /\ telemetry[Len(telemetry)].op = "end"
        /\ TheRequest.wrapped.kind = "response" => last.outcome = "return"
        /\ TheRequest.wrapped.kind = "error" =>
              /\ last.outcome = TheRequest.wrapped.error
              /\ \E i \in DOMAIN telemetry :
                    MadeAs(telemetry[i],
                           set_status(str(TheRequest.wrapped.error)))
              /\ TheRequest.recording =>
                    \E i \in DOMAIN telemetry :
                        MadeAs(telemetry[i],
                               set_attribute(ERROR_TYPE,
                                             TheRequest.wrapped.error))

(***************************************************************************)
(* Properties of cleanup under two callers (specification ThreadSpec).     *)
(***************************************************************************)
\* every thread has left cleanup()
ThreadsFinished == \A t \in Threads : threads[t].at \in {"done", "raised"}

\* number of calls that set the attribute key
AttributeWrites(key) ==
    Cardinality({i \in DOMAIN telemetry :
                    telemetry[i].op = "set_attribute" /\ telemetry[i].key = key})

\* C26: finalize is one guarded operation with compare-and-set semantics:
\* when two triggers of cleanup() on the same wrapper interleave, exactly
\* one of them writes the attributes, emits the events of the choices and
\* ends the span, and the other does nothing.  (Stated for wrappers whose
\* events can be built.)
C26_InterleavedFinalizeActsOnce ==
    (ThreadsFinished /\ CleanupError(self) = "") =>
        /\ EndCalls = 1
        /\ AttributeWrites(GEN_AI_USAGE_INPUT_TOKENS) = 1
        /\ EmitCalls = Len(self.choice_buffers)

(***************************************************************************)
(* Properties of the MySQL instrumentor (specification MySQLSpec).         *)
(***************************************************************************)
\* the last call made on the connection, and the one before it
LastInvoked == invoked[Len(invoked)]

PreviousInvoked == invoked[Len(invoked) - 1]

\* the last two calls were the methods first and second, in this order
InvokedInOrder(first, second) ==
    /\ Len(invoked) >= 2
    /\ PreviousInvoked.method = first
    /\ LastInvoked.method = second

\* the cursor factory f is one that _new_cursor_factory made
IsTraced(f) == f # None /\ f[1].class = "TracedCursorFactory"

\* instrument_connection on a connection whose cursor_factory is not a
\* traced one, followed by uninstrument_connection, leaves the
\* cursor_factory the connection had before the two calls
UninstrumentRestores ==
    (/\ InvokedInOrder("instrument_connection", "uninstrument_connection")
     /\ ~IsTraced(PreviousInvoked.before.cursor_factory))
        => connection.cursor_factory = PreviousInvoked.before.cursor_factory

\* instrument_connection on an instrumented connection changes neither
\* cursor_factory nor the saved original
RepeatedInstrumentIsNoOp ==
    InvokedInOrder("instrument_connection", "instrument_connection")
        => /\ connection.cursor_factory = LastInvoked.before.cursor_factory
           /\ connection._otel_orig_cursor_factory
                 = LastInvoked.before._otel_orig_cursor_factory

\* instrument_connection after uninstrument_connection installs the traced
\* cursor factory
ReinstrumentInstalls ==
    InvokedInOrder("uninstrument_connection", "instrument_connection")
        => connection.cursor_factory
              = Some(_new_cursor_factory(LastInvoked.tracer_provider))

\* C29: uninstrument_connection undoes instrument_connection: the pair
\* restores the original cursor_factory, a repeated instrument_connection
\* on an instrumented connection changes nothing, and after
\* uninstrument_connection a new instrument_connection installs the traced
\* cursor factory again.
C29_UninstrumentUndoesInstrument ==
    /\ UninstrumentRestores
    /\ RepeatedInstrumentIsNoOp
    /\ ReinstrumentInstalls

(***************************************************************************)
(* Properties of the Azure VM detector (specification AzureSpec).          *)
(***************************************************************************)
\* the last call of detect()
LastDetected == detected[Len(detected)]

\* C30: detect() leaves the ambient context balanced: when it has returned
\* or raised, the context is the one it was called in, the token it
\* attached having been detached, also when the metadata request failed or
\* returned nothing.  (While it waits for the metadata service the key is
\* attached.)
C30_DetectLeavesContextBalanced ==
    detected # << >> /\ LastDetected.outcome # "pending" =>
        context = LastDetected.before
====
